---- MODULE Spec2Model ----
(***************************************************************************)
(* FadingKalmanFilter (filterpy/kalman/fading_memory.py) as a state        *)
(* machine.  A value of the program is either the Python scalar or a 2-D   *)
(* numpy array; both are records [sc, m] where sc tells a scalar from an   *)
(* array and m holds the entries row by row.  Entries are exact rationals  *)
(* <<numerator, denominator>> in lowest terms: the model follows the       *)
(* arithmetic of the code over the reals and leaves the rounding of        *)
(* double precision out.                                                   *)
(***************************************************************************)
EXTENDS Integers, Sequences, FiniteSets, TLC

(***************************************************************************)
(* Bounds of the exploration.                                              *)
(***************************************************************************)
\* number of predict/update calls made directly by the caller
MaxSteps == 2
\* length of the measurement sequence handed to batch_filter
MaxLen == 2
\* predict/update are explored from states whose x and P entries have
\* numerators and denominators up to this magnitude (to the power dim_x)
MaxMagnitude == 10000

(***************************************************************************)
(* Exact rational arithmetic.                                              *)
(***************************************************************************)
RECURSIVE GCD(_, _)
GCD(a, b) == IF b = 0 THEN a ELSE GCD(b, a % b)

Abs(n) == IF n < 0 THEN -n ELSE n

Max(a, b) == IF a >= b THEN a ELSE b

Norm(n, d) ==
    LET g == GCD(Abs(n), Abs(d))
        s == IF d < 0 THEN -1 ELSE 1
    IN  <<(s * n) \div g, (s * d) \div g>>

Rat(n, d) == Norm(n, d)

Zero == <<0, 1>>

One == <<1, 1>>

RAdd(a, b) ==
    LET g == GCD(a[2], b[2])
    IN  Norm(a[1] * (b[2] \div g) + b[1] * (a[2] \div g), (a[2] \div g) * b[2])

RNeg(a) == <<-a[1], a[2]>>

RSub(a, b) == RAdd(a, RNeg(b))

RMul(a, b) ==
    LET g1 == GCD(Abs(a[1]), b[2])
        g2 == GCD(Abs(b[1]), a[2])
    IN  Norm((a[1] \div g1) * (b[1] \div g2), (a[2] \div g2) * (b[2] \div g1))

RInv(a) == Norm(a[2], a[1])

RLess(a, b) == RSub(a, b)[1] < 0

(***************************************************************************)
(* numpy values and the numpy operations the filter uses.                  *)
(***************************************************************************)
\* a Python scalar
Sc(r) == [sc |-> TRUE, m |-> <<<<r>>>>]

\* a 2-D array with the given rows
Arr(m) == [sc |-> FALSE, m |-> m]

\* Python's None
None == [none |-> TRUE]

rows(A) == Len(A.m)

cols(A) == Len(A.m[1])

\* entry (i, j) of A when A is broadcast to a larger shape
Elem(A, i, j) ==
    A.m[IF rows(A) = 1 THEN 1 ELSE i][IF cols(A) = 1 THEN 1 ELSE j]

\* one of the elementwise operators +, - and * on two entries
Entrywise(op, a, b) ==
    CASE op = "+" -> RAdd(a, b)
      [] op = "-" -> RSub(a, b)
      [] op = "*" -> RMul(a, b)

\* elementwise operation with numpy broadcasting
Broadcast(op, A, B) ==
    [sc |-> A.sc /\ B.sc,
     m  |-> [i \in 1..Max(rows(A), rows(B)) |->
                [j \in 1..Max(cols(A), cols(B)) |->
                    Entrywise(op, Elem(A, i, j), Elem(B, i, j))]]]

Add(A, B) == Broadcast("+", A, B)

Sub(A, B) == Broadcast("-", A, B)

Scale(A, B) == Broadcast("*", A, B)

RECURSIVE RowCol(_, _, _, _, _)
RowCol(A, B, i, j, k) ==
    IF k = 0 THEN Zero
    ELSE RAdd(RowCol(A, B, i, j, k - 1), RMul(A.m[i][k], B.m[k][j]))

\* numpy.dot: a scalar operand multiplies, two arrays give the matrix product
dot(A, B) ==
    IF A.sc \/ B.sc THEN Scale(A, B)
    ELSE Arr([i \in 1..rows(A) |->
                [j \in 1..cols(B) |-> RowCol(A, B, i, j, cols(A))]])

\* filterpy.common.dot3: the product of three matrices
dot3(A, B, C) == dot(A, dot(B, C))

\* ndarray.T
T(A) == Arr([i \in 1..cols(A) |-> [j \in 1..rows(A) |-> A.m[j][i]]])

eye(n) == Arr([i \in 1..n |-> [j \in 1..n |-> IF i = j THEN One ELSE Zero]])

zeros(r, c) == Arr([i \in 1..r |-> [j \in 1..c |-> Zero]])

\* determinant of a 1x1 or 2x2 array
Det(A) ==
    IF rows(A) = 1 THEN A.m[1][1]
    ELSE RSub(RMul(A.m[1][1], A.m[2][2]), RMul(A.m[1][2], A.m[2][1]))

\* scipy.linalg.inv raises LinAlgError on a singular matrix
Singular(A) == Det(A) = Zero

\* scipy.linalg.inv of a 1x1 or 2x2 array that is not singular
inv(A) ==
    LET d == RInv(Det(A))
    IN  IF rows(A) = 1 THEN Arr(<<<<d>>>>)
        ELSE Arr(<<<<RMul(A.m[2][2], d), RMul(RNeg(A.m[1][2]), d)>>,
                   <<RMul(RNeg(A.m[2][1]), d), RMul(A.m[1][1], d)>>>>)

(***************************************************************************)
(* The methods of FadingKalmanFilter.  A filter is the record of the       *)
(* object's attributes.  Every method is an operator from the filter and   *)
(* the arguments to the outcome of the call: kf is the filter afterwards,  *)
(* ret the value returned and exc the exception raised ("none" when the    *)
(* call returns).                                                          *)
(***************************************************************************)
Outcome(f, r, e) == [kf |-> f, ret |-> r, exc |-> e]

\* Variant of Valid: alpha is only required to be positive.
Valid_positive(alpha, dim_x, dim_z, dim_u) ==
    /\ RLess(Zero, alpha)
    /\ dim_x > 0
    /\ dim_z > 0
    /\ dim_u >= 0

\* the four assert statements of __init__
Valid(alpha, dim_x, dim_z, dim_u) ==
    /\ ~RLess(alpha, One)
    /\ dim_x > 0
    /\ dim_z > 0
    /\ dim_u >= 0

\* the attributes __init__ assigns once the asserts have passed
FadingKalmanFilter(alpha, dim_x, dim_z, dim_u) ==
    [alpha_sq |-> RMul(alpha, alpha),
     dim_x |-> dim_x,
     dim_z |-> dim_z,
     dim_u |-> dim_u,
     x |-> zeros(dim_x, 1),
     P |-> eye(dim_x),
     Q |-> eye(dim_x),
     B |-> Sc(Zero),
     F |-> Sc(Zero),
     H |-> Sc(Zero),
     R |-> eye(dim_z),
     K |-> Sc(Zero),
     y |-> zeros(dim_z, 1),
     S |-> Sc(Zero),
     I |-> eye(dim_x)]

\* Variant of ResolveR: the override is ignored and the stored R is used.
ResolveR_stored(f, R) == f.R

\* the R that update works with: the stored R, or the override of this call
ResolveR(f, R) ==
    IF R = None THEN f.R
    ELSE IF R.sc THEN Scale(eye(f.dim_z), R)
    ELSE R

\* Variant of update: a missing measurement resets the residual y.
update_clears_residual(f, z, R) ==
    IF z = None THEN Outcome([f EXCEPT !.y = zeros(f.dim_z, 1)], None, "none")
    ELSE
      LET Ru == ResolveR(f, R)
          H == f.H
          P == f.P
          x == f.x
          y == Sub(z, dot(H, x))
          f1 == [f EXCEPT !.y = y]
      IN  IF H.sc THEN Outcome(f1, None, "AttributeError")
          ELSE
            LET S == Add(dot3(H, P, T(H)), Ru)
            IN  IF Singular(S) THEN Outcome(f1, None, "LinAlgError")
                ELSE
                  LET K == dot3(P, T(H), inv(S))
                      x1 == Add(x, dot(K, y))
                      I_KH == Sub(f.I, dot(K, H))
                      P1 == Add(dot3(I_KH, P, T(I_KH)), dot3(K, Ru, T(K)))
                  IN  Outcome([f1 EXCEPT !.x = x1, !.P = P1, !.S = S, !.K = K],
                              None, "none")

\* Variant of update: S is stored as soon as it is computed, before inv(S).
update_stores_first(f, z, R) ==
    IF z = None THEN Outcome(f, None, "none")
    ELSE
      LET Ru == ResolveR(f, R)
          H == f.H
          P == f.P
          x == f.x
          y == Sub(z, dot(H, x))
          f1 == [f EXCEPT !.y = y]
      IN  IF H.sc THEN Outcome(f1, None, "AttributeError")
          ELSE
            LET S == Add(dot3(H, P, T(H)), Ru)
            IN  IF Singular(S) THEN Outcome([f1 EXCEPT !.S = S], None, "LinAlgError")
                ELSE
                  LET K == dot3(P, T(H), inv(S))
                      x1 == Add(x, dot(K, y))
                      I_KH == Sub(f.I, dot(K, H))
                      P1 == Add(dot3(I_KH, P, T(I_KH)), dot3(K, Ru, T(K)))
                  IN  Outcome([f1 EXCEPT !.x = x1, !.P = P1, !.S = S, !.K = K],
                              None, "none")

update(f, z, R) ==
    IF z = None THEN Outcome(f, None, "none")
    ELSE
      LET Ru == ResolveR(f, R)
          H == f.H
          P == f.P
          x == f.x
          y == Sub(z, dot(H, x))
          f1 == [f EXCEPT !.y = y]
      IN  IF H.sc THEN Outcome(f1, None, "AttributeError")
          ELSE
            LET S == Add(dot3(H, P, T(H)), Ru)
            IN  IF Singular(S) THEN Outcome(f1, None, "LinAlgError")
                ELSE
                  LET K == dot3(P, T(H), inv(S))
                      x1 == Add(x, dot(K, y))
                      I_KH == Sub(f.I, dot(K, H))
                      P1 == Add(dot3(I_KH, P, T(I_KH)), dot3(K, Ru, T(K)))
                  IN  Outcome([f1 EXCEPT !.x = x1, !.P = P1, !.S = S, !.K = K],
                              None, "none")

\* Variant of predict: the covariance is not inflated by alpha_sq.
predict_unfaded(f, u) ==
    LET f1 == [f EXCEPT !.x = Add(dot(f.F, f.x), dot(f.B, u))]
    IN  IF f.F.sc THEN Outcome(f1, None, "AttributeError")
        ELSE Outcome([f1 EXCEPT !.P = Add(dot3(f.F, f.P, T(f.F)), f.Q)],
                     None, "none")

\* Variant of predict: the product with the transpose of F is left out.
predict_no_transpose(f, u) ==
    LET f1 == [f EXCEPT !.x = Add(dot(f.F, f.x), dot(f.B, u))]
    IN  IF f.F.sc THEN Outcome(f1, None, "AttributeError")
        ELSE Outcome(
               [f1 EXCEPT !.P = Add(Scale(Sc(f.alpha_sq), dot(f.F, f.P)), f.Q)],
               None, "none")

predict(f, u) ==
    LET f1 == [f EXCEPT !.x = Add(dot(f.F, f.x), dot(f.B, u))]
    IN  IF f.F.sc THEN Outcome(f1, None, "AttributeError")
        ELSE Outcome(
               [f1 EXCEPT !.P = Add(Scale(Sc(f.alpha_sq), dot3(f.F, f.P, T(f.F))), f.Q)],
               None, "none")

\* Variant of get_prediction: the prediction is also stored in the filter.
get_prediction_commits(f, u) ==
    LET x == Add(dot(f.F, f.x), dot(f.B, u))
    IN  IF f.F.sc THEN Outcome(f, None, "AttributeError")
        ELSE
          LET P == Add(Scale(Sc(f.alpha_sq), dot3(f.F, f.P, T(f.F))), f.Q)
          IN  Outcome([f EXCEPT !.x = x, !.P = P], [x |-> x, P |-> P], "none")

\* Variant of get_prediction: the covariance is not inflated by alpha_sq.
get_prediction_unfaded(f, u) ==
    LET x == Add(dot(f.F, f.x), dot(f.B, u))
    IN  IF f.F.sc THEN Outcome(f, None, "AttributeError")
        ELSE Outcome(f, [x |-> x, P |-> Add(dot3(f.F, f.P, T(f.F)), f.Q)], "none")

get_prediction(f, u) ==
    LET x == Add(dot(f.F, f.x), dot(f.B, u))
    IN  IF f.F.sc THEN Outcome(f, None, "AttributeError")
        ELSE Outcome(f,
               [x |-> x,
                P |-> Add(Scale(Sc(f.alpha_sq), dot3(f.F, f.P, T(f.F))), f.Q)],
               "none")

residual_of(f, z) == Outcome(f, Sub(z, dot(f.H, f.x)), "none")

measurement_of_state(f, x) == Outcome(f, dot(f.H, x), "none")

(***************************************************************************)
(* The values the callers of the model pass in.                            *)
(***************************************************************************)
\* the array whose entries are the integers of the given rows
M(ints) ==
    Arr([i \in 1..Len(ints) |-> [j \in 1..Len(ints[1]) |-> <<ints[i][j], 1>>]])

Alphas == {Rat(1, 2), One, Rat(11, 10), Rat(2, 1)}

DimXs == {0, 1, 2}

DimZs == {0, 1, 2}

DimUs == {-1, 0, 1}

\* the matrices a caller assigns to a constructed filter before running it
Settings ==
    { [F |-> M(<<<<1>>>>), H |-> M(<<<<1>>>>), Q |-> M(<<<<0>>>>), R |-> M(<<<<1>>>>),
       B |-> Sc(Zero), x |-> M(<<<<0>>>>), P |-> M(<<<<1>>>>)],
      [F |-> M(<<<<1>>>>), H |-> M(<<<<1>>>>), Q |-> M(<<<<0>>>>), R |-> M(<<<<0>>>>),
       B |-> Sc(Zero), x |-> M(<<<<0>>>>), P |-> M(<<<<1>>>>)],
      [F |-> M(<<<<1>>>>), H |-> M(<<<<1>>>>), Q |-> M(<<<<1>>>>), R |-> M(<<<<2>>>>),
       B |-> M(<<<<1>>>>), x |-> M(<<<<1>>>>), P |-> M(<<<<2>>>>)],
      [F |-> M(<<<<1, 1>>, <<0, 1>>>>), H |-> M(<<<<1, 0>>>>),
       Q |-> M(<<<<1, 0>>, <<0, 1>>>>), R |-> M(<<<<1>>>>),
       B |-> Sc(Zero), x |-> M(<<<<0>>, <<0>>>>), P |-> M(<<<<1, 0>>, <<0, 1>>>>)],
      [F |-> M(<<<<1>>>>), H |-> M(<<<<1>>, <<1>>>>), Q |-> M(<<<<0>>>>),
       R |-> M(<<<<1, 0>>, <<0, 1>>>>),
       B |-> Sc(Zero), x |-> M(<<<<0>>>>), P |-> M(<<<<1>>>>)],
      [F |-> M(<<<<1>>>>), H |-> M(<<<<1>>, <<1>>>>), Q |-> M(<<<<1>>>>),
       R |-> M(<<<<0, 0>>, <<0, 0>>>>),
       B |-> Sc(Zero), x |-> M(<<<<0>>>>), P |-> M(<<<<1>>>>)],
      [F |-> M(<<<<1, 1>>, <<0, 1>>>>), H |-> M(<<<<1, 0>>, <<0, 1>>>>),
       Q |-> M(<<<<0, 0>>, <<0, 0>>>>), R |-> M(<<<<1, 0>>, <<0, 1>>>>),
       B |-> Sc(Zero), x |-> M(<<<<0>>, <<0>>>>), P |-> M(<<<<2, 1>>, <<1, 2>>>>)] }

\* a setting fits a filter when its shapes are those of the filter
Compatible(f, s) ==
    /\ rows(s.F) = f.dim_x
    /\ rows(s.H) = f.dim_z
    /\ cols(s.H) = f.dim_x
    /\ IF f.dim_u = 0 THEN s.B.sc ELSE ~s.B.sc /\ rows(s.B) = f.dim_x

\* measurements: absent, or a vector of length dim_z
Measurements(f) == {None, M([i \in 1..f.dim_z |-> <<1>>])}

\* overrides of R: absent, a scalar, or a dim_z x dim_z matrix
Overrides(f) ==
    {None, Sc(Rat(2, 1)),
     IF f.dim_z = 1 THEN M(<<<<3>>>>) ELSE M(<<<<2, 1>>, <<1, 2>>>>)}

\* the arguments of update: a measurement with any override, or no measurement
\* with no override or the scalar one
Updates(f) ==
    {a \in Measurements(f) \X Overrides(f) : a[1] = None => (a[2] = None \/ a[2].sc)}

\* controls: the scalar 0, or a vector of length dim_u
Controls(f) == {Sc(Zero)} \cup (IF f.dim_u = 1 THEN {M(<<<<1>>>>)} ELSE {})

\* states to project with measurement_of_state
States(f) == {M([i \in 1..f.dim_x |-> <<2>>])}

RECURSIVE Pow(_, _)
Pow(v, n) == IF n = 0 THEN 1 ELSE v * Pow(v, n - 1)

\* the entries of x and P are within the magnitude the exploration covers:
\* the products update forms grow with the dimension, so the numerators and
\* denominators are measured to the power dim_x
Fits(f) ==
    \A A \in {f.x, f.P} : \A i \in 1..rows(A) : \A j \in 1..cols(A) :
        /\ Pow(Abs(A.m[i][j][1]), f.dim_x) <= MaxMagnitude
        /\ Pow(A.m[i][j][2], f.dim_x) <= MaxMagnitude

(***************************************************************************)
(* The state machine: one filter object and its caller.                    *)
(***************************************************************************)
VARIABLES
    pc,     \* "new": not constructed, "failed": __init__ raised,
            \* "idle": between calls, "batch": inside the loop of batch_filter
    kf,     \* the filter object (None before construction)
    set,    \* whether the caller has assigned the filter's matrices
    last,   \* the most recent call: [op, arg, R]
    ret,    \* what the most recent call returned
    exc,    \* the exception the most recent call raised, or "none"
    hist,   \* the predict/update calls the caller made since kf0
    kf0,    \* the filter as the caller set it up
    pre,    \* the filter as it was when the most recent call began
    bf      \* the frame of batch_filter: its arguments, locals and outputs

vars == <<pc, kf, set, last, ret, exc, hist, kf0, pre, bf>>

Call(op, arg, R) == [op |-> op, arg |-> arg, R |-> R]

Init ==
    /\ pc = "new"
    /\ kf = None
    /\ set = FALSE
    /\ last = Call("none", None, None)
    /\ ret = None
    /\ exc = "none"
    /\ hist = <<>>
    /\ kf0 = None
    /\ pre = None
    /\ bf = None

\* FadingKalmanFilter(alpha, dim_x, dim_z, dim_u)
Construct(alpha, dim_x, dim_z, dim_u) ==
    /\ pc = "new"
    /\ last' = Call("__init__", [alpha |-> alpha, dim_x |-> dim_x,
                                 dim_z |-> dim_z, dim_u |-> dim_u], None)
    /\ IF Valid(alpha, dim_x, dim_z, dim_u)
       THEN /\ pc' = "idle"
            /\ kf' = FadingKalmanFilter(alpha, dim_x, dim_z, dim_u)
            /\ kf0' = kf'
            /\ exc' = "none"
       ELSE /\ pc' = "failed"
            /\ exc' = "AssertionError"
            /\ UNCHANGED <<kf, kf0>>
    /\ UNCHANGED <<set, ret, hist, pre, bf>>

\* the caller assigns F, H, Q, R, B, x and P
Configure(s) ==
    /\ pc = "idle"
    /\ ~set
    /\ hist = <<>>
    /\ bf = None
    /\ Compatible(kf, s)
    /\ kf' = [kf EXCEPT !.F = s.F, !.H = s.H, !.Q = s.Q, !.R = s.R,
                        !.B = s.B, !.x = s.x, !.P = s.P]
    /\ kf0' = kf'
    /\ pre' = kf
    /\ set' = TRUE
    /\ last' = Call("assign", None, None)
    /\ ret' = None
    /\ exc' = "none"
    /\ UNCHANGED <<pc, hist, bf>>

\* the caller's budget of direct predict/update calls; a filter whose matrices
\* were never assigned is explored one call deep
MayStep ==
    /\ pc = "idle"
    /\ bf = None
    /\ Len(hist) < MaxSteps
    /\ set \/ hist = <<>>
    /\ Fits(kf)

\* the state after a direct call with the given outcome
Finish(c, out) ==
    /\ pre' = kf
    /\ kf' = out.kf
    /\ ret' = out.ret
    /\ exc' = out.exc
    /\ last' = c

Predict(u) ==
    /\ MayStep
    /\ Finish(Call("predict", u, None), predict(kf, u))
    /\ hist' = Append(hist, Call("predict", u, None))
    /\ UNCHANGED <<pc, set, kf0, bf>>

Update(z, R) ==
    /\ MayStep
    /\ Finish(Call("update", z, R), update(kf, z, R))
    /\ hist' = Append(hist, Call("update", z, R))
    /\ UNCHANGED <<pc, set, kf0, bf>>

GetPrediction(u) ==
    /\ pc = "idle"
    /\ Fits(kf)
    /\ Finish(Call("get_prediction", u, None), get_prediction(kf, u))
    /\ UNCHANGED <<pc, set, hist, kf0, bf>>

ResidualOf(z) ==
    /\ pc = "idle"
    /\ Finish(Call("residual_of", z, None), residual_of(kf, z))
    /\ UNCHANGED <<pc, set, hist, kf0, bf>>

MeasurementOfState(x) ==
    /\ pc = "idle"
    /\ Finish(Call("measurement_of_state", x, None), measurement_of_state(kf, x))
    /\ UNCHANGED <<pc, set, hist, kf0, bf>>

\* the lists of n elements of S
RECURSIVE Lists(_, _)
Lists(S, n) ==
    IF n = 0 THEN {<<>>}
    ELSE {Append(l, e) : l \in Lists(S, n - 1), e \in S}

Min(a, b) == IF a <= b THEN a ELSE b

\* a Python list handed in where None is also accepted
PyList(l) == [items |-> l]

\* the Rs handed to batch_filter with n measurements: absent, or a list of n
\* entries in which None and a scalar override alternate
RsChoices(n) ==
    {None,
     PyList([k \in 1..n |-> IF k % 2 = 1 THEN None ELSE Sc(Rat(2, 1))]),
     PyList([k \in 1..n |-> IF k % 2 = 1 THEN Sc(Rat(2, 1)) ELSE None])}

\* the number of pairs zip(zs, Rs) yields
Pairs(b) == Min(Len(b.zs), Len(b.Rs))

\* batch_filter is explored once, on a filter the caller has not stepped
MayBatch ==
    /\ pc = "idle"
    /\ bf = None
    /\ hist = <<>>

\* batch_filter(zs, Rs, update_first) up to the loop: n, the default Rs and
\* the four zeroed outputs
BatchStart(zs, Rs, update_first) ==
    /\ MayBatch
    /\ pc' = "batch"
    /\ bf' = [zs |-> zs,
              Rs |-> IF Rs = None THEN [k \in 1..Len(zs) |-> None] ELSE Rs.items,
              Rs_given |-> Rs # None,
              update_first |-> update_first,
              n |-> Len(zs),
              i |-> 1,
              phase |-> IF update_first THEN "update" ELSE "predict",
              means |-> [k \in 1..Len(zs) |-> zeros(kf.dim_x, 1)],
              means_p |-> [k \in 1..Len(zs) |-> zeros(kf.dim_x, 1)],
              covariances |-> [k \in 1..Len(zs) |-> zeros(kf.dim_x, kf.dim_x)],
              covariances_p |-> [k \in 1..Len(zs) |-> zeros(kf.dim_x, kf.dim_x)],
              start |-> kf,
              log |-> <<>>]
    /\ last' = Call("batch_filter", None, None)
    /\ pre' = kf
    /\ ret' = None
    /\ exc' = "none"
    /\ UNCHANGED <<kf, set, hist, kf0>>

\* an exception inside the loop leaves batch_filter
BatchRaise(out) ==
    /\ pc' = "idle"
    /\ bf' = [bf EXCEPT !.phase = "raised"]

\* Variant of BatchPredict: the prediction is recorded in the filtered outputs.
BatchPredict_mixed ==
    /\ pc = "batch"
    /\ bf.i <= Pairs(bf)
    /\ bf.phase = "predict"
    /\ Fits(kf)
    /\ LET out == predict(kf, Sc(Zero))
       IN  /\ Finish(Call("predict", Sc(Zero), None), out)
           /\ IF out.exc # "none" THEN BatchRaise(out)
              ELSE /\ pc' = "batch"
                   /\ bf' = [bf EXCEPT
                         !.means[bf.i] = out.kf.x,
                         !.covariances[bf.i] = out.kf.P,
                         !.log = Append(@, [op |-> "predict", i |-> bf.i,
                                            z |-> None, R |-> None,
                                            kf |-> out.kf]),
                         !.phase = "update",
                         !.i = IF bf.update_first THEN @ + 1 ELSE @]
    /\ UNCHANGED <<set, hist, kf0>>

\* self.predict() and the two assignments that follow it in the loop
BatchPredict ==
    /\ pc = "batch"
    /\ bf.i <= Pairs(bf)
    /\ bf.phase = "predict"
    /\ Fits(kf)
    /\ LET out == predict(kf, Sc(Zero))
       IN  /\ Finish(Call("predict", Sc(Zero), None), out)
           /\ IF out.exc # "none" THEN BatchRaise(out)
              ELSE /\ pc' = "batch"
                   /\ bf' = [bf EXCEPT
                         !.means_p[bf.i] = out.kf.x,
                         !.covariances_p[bf.i] = out.kf.P,
                         !.log = Append(@, [op |-> "predict", i |-> bf.i,
                                            z |-> None, R |-> None,
                                            kf |-> out.kf]),
                         !.phase = "update",
                         !.i = IF bf.update_first THEN @ + 1 ELSE @]
    /\ UNCHANGED <<set, hist, kf0>>

\* Variant of BatchUpdate: x and P are recorded before update is called.
BatchUpdate_stale ==
    /\ pc = "batch"
    /\ bf.i <= Pairs(bf)
    /\ bf.phase = "update"
    /\ Fits(kf)
    /\ LET z == bf.zs[bf.i]
           r == bf.Rs[bf.i]
           out == update(kf, z, r)
       IN  /\ Finish(Call("update", z, r), out)
           /\ IF out.exc # "none" THEN BatchRaise(out)
              ELSE /\ pc' = "batch"
                   /\ bf' = [bf EXCEPT
                         !.means[bf.i] = kf.x,
                         !.covariances[bf.i] = kf.P,
                         !.log = Append(@, [op |-> "update", i |-> bf.i,
                                            z |-> z, R |-> r,
                                            kf |-> out.kf]),
                         !.phase = "predict",
                         !.i = IF bf.update_first THEN @ ELSE @ + 1]
    /\ UNCHANGED <<set, hist, kf0>>

\* self.update(z, r) and the two assignments that follow it in the loop
BatchUpdate ==
    /\ pc = "batch"
    /\ bf.i <= Pairs(bf)
    /\ bf.phase = "update"
    /\ Fits(kf)
    /\ LET z == bf.zs[bf.i]
           r == bf.Rs[bf.i]
           out == update(kf, z, r)
       IN  /\ Finish(Call("update", z, r), out)
           /\ IF out.exc # "none" THEN BatchRaise(out)
              ELSE /\ pc' = "batch"
                   /\ bf' = [bf EXCEPT
                         !.means[bf.i] = out.kf.x,
                         !.covariances[bf.i] = out.kf.P,
                         !.log = Append(@, [op |-> "update", i |-> bf.i,
                                            z |-> z, R |-> r,
                                            kf |-> out.kf]),
                         !.phase = "predict",
                         !.i = IF bf.update_first THEN @ ELSE @ + 1]
    /\ UNCHANGED <<set, hist, kf0>>

\* return (means, covariances, means_p, covariances_p)
BatchReturn ==
    /\ pc = "batch"
    /\ bf.i > Pairs(bf)
    /\ pc' = "idle"
    /\ bf' = [bf EXCEPT !.phase = "returned"]
    /\ ret' = [means |-> bf.means, covariances |-> bf.covariances,
               means_p |-> bf.means_p, covariances_p |-> bf.covariances_p]
    /\ last' = Call("batch_filter", None, None)
    /\ pre' = bf.start
    /\ exc' = "none"
    /\ UNCHANGED <<kf, set, hist, kf0>>

Next ==
    \/ \E alpha \in Alphas, dim_x \in DimXs, dim_z \in DimZs, dim_u \in DimUs :
          Construct(alpha, dim_x, dim_z, dim_u)
    \/ \E s \in Settings : Configure(s)
    \/ MayStep /\ \E u \in Controls(kf) : Predict(u)
    \/ MayStep /\ \E a \in Updates(kf) : Update(a[1], a[2])
    \/ pc = "idle" /\ \E u \in Controls(kf) : GetPrediction(u)
    \/ pc = "idle" /\ \E z \in Measurements(kf) \ {None} : ResidualOf(z)
    \/ pc = "idle" /\ \E x \in States(kf) : MeasurementOfState(x)
    \/ MayBatch /\ \E n \in 0..MaxLen : \E zs \in Lists(Measurements(kf), n) :
          \E Rs \in RsChoices(n) :
             \E update_first \in BOOLEAN : BatchStart(zs, Rs, update_first)
    \/ BatchPredict
    \/ BatchUpdate
    \/ BatchReturn

Spec == Init /\ [][Next]_vars

(***************************************************************************)
(* Properties.                                                             *)
(***************************************************************************)
Exists == pc \in {"idle", "batch"}

Queries == {"get_prediction", "residual_of", "measurement_of_state"}

\* C1: update(z) with z absent, with or without an R override, changes
\* nothing: x, P, K, S, y and the stored R are what they were before the call
\* (and so is every other attribute), and the call returns normally.
C1_UpdateNoneChangesNothing ==
    (last.op = "update" /\ last.arg = None) =>
        /\ kf.x = pre.x
        /\ kf.P = pre.P
        /\ kf.K = pre.K
        /\ kf.S = pre.S
        /\ kf.y = pre.y
        /\ kf.R = pre.R
        /\ kf = pre
        /\ exc = "none"

\* an update without a measurement but with an R override, on a filter whose
\* gain and residual an earlier update has set
C1_Witness ==
    /\ last.op = "update"
    /\ last.arg = None
    /\ last.R # None
    /\ ~kf.K.sc
    /\ kf.y # zeros(kf.dim_z, 1)

\* C2: get_prediction, residual_of and measurement_of_state leave x, P, K, S
\* and y (and every other attribute) as they were, wherever they are called
\* between predict and update calls.
C2_QueriesDoNotMutate ==
    (last.op \in Queries) =>
        /\ kf.x = pre.x
        /\ kf.P = pre.P
        /\ kf.K = pre.K
        /\ kf.S = pre.S
        /\ kf.y = pre.y
        /\ kf = pre

\* get_prediction has returned a covariance other than the stored one, after
\* an update has set the gain
C2_Witness ==
    /\ last.op = "get_prediction"
    /\ exc = "none"
    /\ ret.P # kf.P
    /\ ~kf.K.sc
    /\ hist # <<>>

\* C5: the pair get_prediction(u) returns is the (x, P) the filter holds after
\* predict(u) from the same state; with dim_x = 1 it is x' = F x + B u and
\* P' = alpha_sq F P F + Q.  get_prediction raises exactly when predict does.
C5_GetPredictionAgreesWithPredict ==
    (last.op = "get_prediction") =>
        LET p == predict(kf, last.arg)
        IN  /\ exc = p.exc
            /\ exc = "none" =>
                 /\ ret.x = p.kf.x
                 /\ ret.P = p.kf.P
                 /\ kf.dim_x = 1 =>
                      /\ ret.x.m[1][1] =
                           RAdd(RMul(kf.F.m[1][1], kf.x.m[1][1]),
                                RMul(kf.B.m[1][1], last.arg.m[1][1]))
                      /\ ret.P.m[1][1] =
                           RAdd(RMul(kf.alpha_sq,
                                     RMul(kf.F.m[1][1],
                                          RMul(kf.P.m[1][1], kf.F.m[1][1]))),
                                kf.Q.m[1][1])

\* get_prediction has returned for a control vector on a filter with alpha > 1
C5_Witness ==
    /\ last.op = "get_prediction"
    /\ exc = "none"
    /\ ~last.arg.sc
    /\ kf.alpha_sq # One
    /\ ret.x # kf.x
    /\ ret.P # kf.P

\* C9: construction raises and yields no filter when alpha < 1, dim_x <= 0,
\* dim_z <= 0 or dim_u < 0; otherwise it yields a filter with
\* alpha_sq = alpha^2, x = 0, P = I, Q = I, R = I.  Every filter has
\* alpha_sq >= 1, dim_x > 0, dim_z > 0, dim_u >= 0, and no call changes them.
C9_ConstructionValidation ==
    /\ (last.op = "__init__") =>
         LET a == last.arg
         IN  IF a.alpha[1] < a.alpha[2] \/ a.dim_x <= 0 \/ a.dim_z <= 0 \/ a.dim_u < 0
             THEN pc = "failed" /\ kf = None /\ exc = "AssertionError"
             ELSE /\ pc = "idle"
                  /\ exc = "none"
                  /\ kf.alpha_sq[1] * a.alpha[2] * a.alpha[2]
                       = a.alpha[1] * a.alpha[1] * kf.alpha_sq[2]
                  /\ kf.dim_x = a.dim_x /\ kf.dim_z = a.dim_z /\ kf.dim_u = a.dim_u
                  /\ kf.x = M([i \in 1..a.dim_x |-> <<0>>])
                  /\ \A A \in {kf.P, kf.Q, kf.R} :
                       /\ ~A.sc
                       /\ rows(A) = cols(A)
                       /\ rows(A) = (IF A = kf.R THEN a.dim_z ELSE a.dim_x)
                       /\ \A i, j \in 1..rows(A) :
                            A.m[i][j] = IF i = j THEN <<1, 1>> ELSE <<0, 1>>
    /\ Exists <=> kf # None
    /\ Exists =>
         /\ kf.alpha_sq[1] >= kf.alpha_sq[2]
         /\ kf.dim_x > 0 /\ kf.dim_z > 0 /\ kf.dim_u >= 0
    /\ (Exists /\ last.op # "__init__") =>
         /\ kf.alpha_sq = pre.alpha_sq
         /\ kf.dim_x = pre.dim_x /\ kf.dim_z = pre.dim_z /\ kf.dim_u = pre.dim_u

\* construction has failed on alpha < 1 alone
C9_Witness ==
    /\ pc = "failed"
    /\ last.op = "__init__"
    /\ last.arg.alpha[1] < last.arg.alpha[2]
    /\ last.arg.dim_x > 0 /\ last.arg.dim_z > 0 /\ last.arg.dim_u >= 0

\* the 1-D scenario: dim_x = dim_z = 1, F = H = 1, Q = 0, R = 1, x0 = 0, P0 = 1
Scenario ==
    /\ Exists
    /\ set
    /\ kf0.dim_x = 1 /\ kf0.dim_z = 1 /\ kf0.dim_u = 0
    /\ kf0.F = M(<<<<1>>>>) /\ kf0.H = M(<<<<1>>>>)
    /\ kf0.Q = M(<<<<0>>>>) /\ kf0.R = M(<<<<1>>>>)
    /\ kf0.x = M(<<<<0>>>>) /\ kf0.P = M(<<<<1>>>>)

\* C7: in the 1-D scenario, predict() then update(z = 1) gives, for alpha = 1,
\* predicted P = 1 and then K = 1/2, x = 1/2, P = 1/2; for alpha = 1.1
\* (alpha_sq = 1.21) the P between predict and update is 1.21 and the gain K is
\* strictly larger than 1/2.
C7_ConcreteScenario ==
    (Scenario /\ bf = None) =>
        /\ (hist = <<Call("predict", Sc(Zero), None)>>) =>
             /\ kf.alpha_sq = <<1, 1>> => kf.P.m = <<<<(<<1, 1>>)>>>>
             /\ kf.alpha_sq = <<121, 100>> => kf.P.m = <<<<(<<121, 100>>)>>>>
        /\ (hist = <<Call("predict", Sc(Zero), None),
                     Call("update", M(<<<<1>>>>), None)>>) =>
             /\ kf.alpha_sq = <<1, 1>> =>
                  /\ last.op = "update" => pre.P.m = <<<<(<<1, 1>>)>>>>
                  /\ kf.K.m = <<<<(<<1, 2>>)>>>>
                  /\ kf.x.m = <<<<(<<1, 2>>)>>>>
                  /\ kf.P.m = <<<<(<<1, 2>>)>>>>
             /\ kf.alpha_sq = <<121, 100>> =>
                  /\ last.op = "update" => pre.P.m = <<<<(<<121, 100>>)>>>>
                  /\ 2 * kf.K.m[1][1][1] > kf.K.m[1][1][2]

\* the scenario with alpha = 1.1 after predict() and update(z = 1)
C7_Witness ==
    /\ Scenario
    /\ last.op = "update"
    /\ exc = "none"
    /\ bf = None
    /\ kf.alpha_sq = <<121, 100>>
    /\ hist = <<Call("predict", Sc(Zero), None), Call("update", M(<<<<1>>>>), None)>>
    /\ ~kf.K.sc

\* the scenario with alpha = 1 after predict() and update(z = 1)
C7_WitnessStandard ==
    /\ Scenario
    /\ last.op = "update"
    /\ exc = "none"
    /\ bf = None
    /\ kf.alpha_sq = <<1, 1>>
    /\ hist = <<Call("predict", Sc(Zero), None), Call("update", M(<<<<1>>>>), None)>>
    /\ kf.K.m = <<<<(<<1, 2>>)>>>>

\* the R an update call is to work with: the override, a scalar r standing for
\* r times the dim_z identity, or the stored R when there is no override
EffectiveR(f, R) ==
    IF R = None THEN f.R
    ELSE IF R.sc
         THEN Arr([i \in 1..f.dim_z |->
                     [j \in 1..f.dim_z |-> IF i = j THEN R.m[1][1] ELSE <<0, 1>>]])
         ELSE R

\* C8: an update with a measurement that returns has used the R of this call
\* (the override if there is one, the stored R otherwise) both in
\* S = H P H' + R and in the K R K' term of the new P; no update call changes
\* the stored R.
C8_PerCallROverride ==
    /\ (last.op = "update") => kf.R = pre.R
    /\ (Exists /\ set) => kf.R = kf0.R
    /\ (last.op = "update" /\ last.arg # None /\ exc = "none") =>
         LET Ru == EffectiveR(pre, last.R)
             I_KH == Sub(pre.I, dot(kf.K, pre.H))
         IN  /\ Sub(kf.S, dot3(pre.H, pre.P, T(pre.H))) = Ru
             /\ Sub(kf.P, dot3(I_KH, pre.P, T(I_KH))) = dot3(kf.K, Ru, T(kf.K))

\* an update with a scalar override, then one without: the second has used the
\* stored R, which differs from the override
C8_Witness ==
    /\ Exists
    /\ set
    /\ bf = None
    /\ Len(hist) = 2
    /\ hist[1].op = "update" /\ hist[1].arg # None /\ hist[1].R = Sc(<<2, 1>>)
    /\ hist[2].op = "update" /\ hist[2].arg # None /\ hist[2].R = None
    /\ exc = "none"
    /\ kf.R # EffectiveR(kf, Sc(<<2, 1>>))
    /\ Sub(kf.S, dot3(pre.H, pre.P, T(pre.H))) = kf.R

\* C10: when update(z) with a present z fails because S = H P H' + R is not
\* invertible, the error reaches the caller and x, P, K and S (and every
\* attribute but y) hold their values from before the call; y holds z - H x.
C10_FailedUpdateKeepsEstimate ==
    (last.op = "update" /\ exc = "LinAlgError") =>
        /\ last.arg # None
        /\ Singular(Add(dot3(pre.H, pre.P, T(pre.H)), EffectiveR(pre, last.R)))
        /\ kf.x = pre.x
        /\ kf.P = pre.P
        /\ kf.K = pre.K
        /\ kf.S = pre.S
        /\ [kf EXCEPT !.y = pre.y] = pre
        /\ kf.y = Sub(last.arg, dot(pre.H, pre.x))
        /\ ret = None
        /\ pc = "idle"
        /\ bf # None => bf.phase = "raised"

\* an update has failed on a singular S after an earlier update had set K and
\* S, and the failed call has written a new residual
C10_Witness ==
    /\ last.op = "update"
    /\ exc = "LinAlgError"
    /\ ~kf.K.sc
    /\ ~kf.S.sc
    /\ kf.y # pre.y

\* a symmetric positive semi-definite 1x1 or 2x2 array
SymPSD(A) ==
    /\ ~A.sc
    /\ rows(A) = cols(A)
    /\ \A i, j \in 1..rows(A) : A.m[i][j] = A.m[j][i]
    /\ \A i \in 1..rows(A) : A.m[i][i][1] >= 0
    /\ Det(A)[1] >= 0

\* a symmetric positive definite 1x1 or 2x2 array
SymPD(A) ==
    /\ SymPSD(A)
    /\ A.m[1][1][1] > 0
    /\ Det(A)[1] > 0

\* C6: from a symmetric positive semi-definite P, with symmetric PSD Q,
\* symmetric positive definite R (stored or overriding) and alpha >= 1, P is
\* symmetric positive semi-definite after any sequence of predict and update
\* calls; with dim_x = dim_z = 1, P >= 0.
C6_CovarianceStaysPSD ==
    (Exists /\ SymPSD(kf0.P) /\ SymPSD(kf0.Q) /\ SymPD(kf0.R)) =>
        /\ SymPSD(kf.P)
        /\ kf.dim_x = 1 => kf.P.m[1][1][1] >= 0

\* a 2x2 covariance with correlated entries after a predict and an update
C6_Witness ==
    /\ Exists
    /\ set
    /\ SymPSD(kf0.P) /\ SymPSD(kf0.Q) /\ SymPD(kf0.R)
    /\ kf.dim_x = 2
    /\ Len(hist) = 2
    /\ hist[1].op = "predict"
    /\ hist[2].op = "update" /\ hist[2].arg # None
    /\ exc = "none"
    /\ kf.P.m[1][2] # <<0, 1>>
    /\ kf.P # kf0.P

\* a second filter with the x, P, F, H, Q, R, B and alpha_sq of f and the K, S
\* and y of a newly constructed one
Fresh(f) == [f EXCEPT !.K = Sc(Zero), !.S = Sc(Zero), !.y = zeros(f.dim_z, 1)]

\* the filter after predict() then update(zs[k]) for k = 1..i, called by hand
RECURSIVE Manual(_, _, _)
Manual(f, zs, i) ==
    IF i = 0 THEN f
    ELSE update(predict(Manual(f, zs, i - 1), Sc(Zero)).kf, zs[i], None).kf

\* C3: with update_first = False and Rs absent, the means and covariances that
\* batch_filter(zs) records at step i are the x and P of a second filter, set
\* up like the first, after predict() then update(zs[k]) for k up to i; they
\* are what batch_filter returns.
C3_BatchEquivalence ==
    (bf # None /\ ~bf.update_first /\ ~bf.Rs_given) =>
        /\ \A i \in 1..(bf.i - 1) :
             LET second == Manual(Fresh(bf.start), bf.zs, i)
             IN  /\ bf.means[i] = second.x
                 /\ bf.covariances[i] = second.P
        /\ (bf.phase = "returned" /\ last.op = "batch_filter") =>
             /\ bf.i = Len(bf.zs) + 1
             /\ ret.means = bf.means
             /\ ret.covariances = bf.covariances

\* batch_filter has returned for a measurement followed by a missing one
C3_Witness ==
    /\ bf # None
    /\ bf.phase = "returned"
    /\ last.op = "batch_filter"
    /\ ~bf.update_first
    /\ ~bf.Rs_given
    /\ Len(bf.zs) = 2
    /\ bf.zs[1] # None
    /\ bf.zs[2] = None
    /\ kf.alpha_sq # One
    /\ ret.means[1] # zeros(kf.dim_x, 1)
    /\ ret.covariances[1] # ret.covariances[2]

\* the k-th call of the loop: predict and update alternate, the first one
\* being update when update_first holds
ExpectedOp(b, k) ==
    IF (k % 2 = 1) = b.update_first THEN "update" ELSE "predict"

\* the filter the k-th call of the loop starts from
Before(b, k) == IF k = 1 THEN b.start ELSE b.log[k - 1].kf

\* C4: batch_filter goes through the indices in order; at each index it calls
\* predict() then update(zs[i], Rs[i]), or update(zs[i], Rs[i]) then predict()
\* when update_first holds; the predictions outputs at i hold (x, P) as they
\* are right after that predict and the means and covariances outputs at i
\* hold (x, P) as they are right after that update; the four outputs have
\* length n.
C4_BatchOrdering ==
    (bf # None) =>
        /\ Len(bf.means) = bf.n /\ Len(bf.covariances) = bf.n
        /\ Len(bf.means_p) = bf.n /\ Len(bf.covariances_p) = bf.n
        /\ bf.n = Len(bf.zs)
        /\ \A k \in 1..Len(bf.log) :
             LET e == bf.log[k]
                 i == (k + 1) \div 2
             IN  /\ e.op = ExpectedOp(bf, k)
                 /\ e.i = i
                 /\ IF e.op = "predict"
                    THEN /\ e.kf = predict(Before(bf, k), Sc(Zero)).kf
                         /\ bf.means_p[i] = e.kf.x
                         /\ bf.covariances_p[i] = e.kf.P
                    ELSE /\ e.kf = update(Before(bf, k), bf.zs[i], bf.Rs[i]).kf
                         /\ e.z = bf.zs[i]
                         /\ e.R = bf.Rs[i]
                         /\ bf.means[i] = e.kf.x
                         /\ bf.covariances[i] = e.kf.P
        /\ (bf.phase = "returned") =>
             /\ Len(bf.log) = 2 * bf.n
             /\ kf = Before(bf, 2 * bf.n + 1)
             /\ last.op = "batch_filter" =>
                  ret = [means |-> bf.means, covariances |-> bf.covariances,
                         means_p |-> bf.means_p, covariances_p |-> bf.covariances_p]

\* batch_filter has returned with update_first for two measurements, the
\* second with an override of R
C4_Witness ==
    /\ bf # None
    /\ bf.phase = "returned"
    /\ last.op = "batch_filter"
    /\ bf.update_first
    /\ bf.n = 2
    /\ bf.zs[1] # None /\ bf.zs[2] # None
    /\ bf.Rs_given /\ bf.Rs[1] = None /\ bf.Rs[2] # None
    /\ ret.means[2] # ret.means_p[2]
    /\ ret.covariances[1] # ret.covariances_p[1]

\* batch_filter has returned in the default order for two measurements
C4_WitnessDefault ==
    /\ bf # None
    /\ bf.phase = "returned"
    /\ last.op = "batch_filter"
    /\ ~bf.update_first
    /\ bf.n = 2
    /\ bf.zs[1] # None /\ bf.zs[2] # None
    /\ ret.covariances[2] # ret.covariances_p[2]

====
